---- MODULE Spec2Model ----
(***************************************************************************)
(* Model of the record-management and persistence layer of src/main.py:    *)
(* the Student entity (Person/Student) and the StudentManager store with   *)
(* its JSON backing file.                                                  *)
(*                                                                         *)
(* A Python str is a sequence of one-character strings.  A Student object  *)
(* is a record [name, id, major]; a JSON object of the backing file is a   *)
(* function from a subset of {"name","student_id","major"} to values.      *)
(* A value that is not a str (JSON null, a number) is the one-element      *)
(* tuple holding its JSON literal, which no str equals.                    *)
(***************************************************************************)
EXTENDS Integers, Sequences, FiniteSets, TLC

VARIABLES students, file, last

vars == <<students, file, last>>

----------------------------------------------------------------------------
(* Bounds *)

\* add_student is not offered once the store holds this many Students
MaxStudents == 2

\* longest JSON array the backing file holds before the first construction
MaxFileLen == 2

\* longest str handed to the Student constructor on its own
MaxStrLen == 2

----------------------------------------------------------------------------
(* Strings *)

EmptyStr == <<>>

\* the characters a str is made of
Chars == {" ", "a", "b", "m", "n", "A", "B", "M", "N"}

\* JSON null as json.load returns it: None, which is not a str
JsonNull == <<"null">>

\* isinstance(v, str); v.lower() raises AttributeError when it is false
IsStr(v) == \A i \in 1..Len(v) : v[i] \in Chars

SetMin(S) == CHOOSE x \in S : \A y \in S : x <= y

SetMax(S) == CHOOSE x \in S : \A y \in S : x >= y

\* str.strip(): drop leading and trailing whitespace
Strip(s) ==
    LET keep == {i \in 1..Len(s) : s[i] # " "}
    IN  IF keep = {} THEN EmptyStr ELSE SubSeq(s, SetMin(keep), SetMax(keep))

LowerChar(c) ==
    CASE c = "A" -> "a"
      [] c = "B" -> "b"
      [] c = "M" -> "m"
      [] c = "N" -> "n"
      [] OTHER -> c

\* str.lower()
Lower(s) == [i \in 1..Len(s) |-> LowerChar(s[i])]

\* code point of a character, for str comparison
Ord(c) ==
    CASE c = " " -> 32
      [] c = "A" -> 65
      [] c = "B" -> 66
      [] c = "M" -> 77
      [] c = "N" -> 78
      [] c = "a" -> 97
      [] c = "b" -> 98
      [] c = "m" -> 109
      [] c = "n" -> 110
      [] OTHER -> 0

\* Python's str < str: lexicographic by code point
StrLess(a, b) ==
    \/ /\ Len(a) < Len(b)
       /\ \A i \in 1..Len(a) : a[i] = b[i]
    \/ \E k \in 1..Len(a) :
          /\ k <= Len(b)
          /\ \A i \in 1..(k - 1) : a[i] = b[i]
          /\ Ord(a[k]) < Ord(b[k])

\* Python's "q in s" for strings: q is a contiguous substring of s
Contains(s, q) ==
    \E i \in 0..(Len(s) - Len(q)) : SubSeq(s, i + 1, i + Len(q)) = q

----------------------------------------------------------------------------
(* Inputs offered by the callers *)

NameInputs == { <<" ">>, <<"B", " ">> }

IdInputs == { <<" ">>, <<"a">>, <<" ", "a">>, <<"A">> }

MajorInputs == { <<>>, <<" ", "n">> }

ByInputs == { "name", "id", "major" }

QueryInputs == { <<" ">>, <<"A", " ">>, <<"b">>, <<"m">> }

\* what a caller does to the list it received
ListOps == { "clear", "reverse", "pop", "append" }

\* outcome of the open()/json.dump() of save_to_file
SaveOutcomes == { "ok", "open_failed", "write_failed" }

----------------------------------------------------------------------------
(* Student (Person) *)

\* Student.__init__ handing name and id to Person.__init__ the wrong way round
Student_swapped(name, student_id, major) ==
    [name |-> student_id, id |-> name, major |-> major]

\* Student.__init__ / Person.__init__: plain assignment of the three fields
Student(name, student_id, major) ==
    [name |-> name, id |-> student_id, major |-> major]

\* a setter either raises ValidationError or returns the mutated object
Raised(s) == [raised |-> TRUE, obj |-> s]

Returned(s) == [raised |-> FALSE, obj |-> s]

\* set_name assigning the stripped value without testing it
set_name_unchecked(s, name) == Returned([s EXCEPT !.name = Strip(name)])

set_name(s, name) ==
    IF Strip(name) = EmptyStr
    THEN Raised(s)
    ELSE Returned([s EXCEPT !.name = Strip(name)])

set_id(s, person_id) ==
    IF Strip(person_id) = EmptyStr
    THEN Raised(s)
    ELSE Returned([s EXCEPT !.id = Strip(person_id)])

\* set_major storing the value it checked instead of the stripped one
set_major_untrimmed(s, major) ==
    IF Strip(major) = EmptyStr
    THEN Raised(s)
    ELSE Returned([s EXCEPT !.major = major])

set_major(s, major) ==
    IF Strip(major) = EmptyStr
    THEN Raised(s)
    ELSE Returned([s EXCEPT !.major = Strip(major)])

to_dict(s) ==
    [name |-> s.name, student_id |-> s.id, major |-> s.major]

DictKeys == {"name", "student_id", "major"}

\* an item of the JSON array that is an object; any other JSON value is
\* written [json_value |-> literal]
is_json_object(data) == "json_value" \notin DOMAIN data

\* from_dict raises TypeError when data is not an object and KeyError when
\* a key is missing
from_dict_raises(data) ==
    \/ ~is_json_object(data)
    \/ ~(DictKeys \subseteq DOMAIN data)

from_dict(data) ==
    Student(data["name"], data["student_id"], data["major"])

----------------------------------------------------------------------------
(* Backing file *)

NoFile == [kind |-> "missing", data |-> <<>>]

BadFile == [kind |-> "malformed", data |-> <<>>]

\* a file json.load parses to a value that is not an array
NotArrayFile == [kind |-> "not_array", data |-> <<>>]

JsonFile(data) == [kind |-> "json", data |-> data]

\* JSON objects found in a file written by something other than this program
FileEntries ==
    { [name |-> <<"a">>, student_id |-> <<"a">>, major |-> <<"m">>],
      [name |-> <<>>, student_id |-> <<" ", "a">>, major |-> <<" ">>],
      [name |-> <<"B">>, major |-> <<"m">>],
      [name |-> <<"B">>, student_id |-> <<"a">>, major |-> <<"n">>],
      [name |-> JsonNull, student_id |-> <<"A">>, major |-> <<"m">>],
      [json_value |-> <<"5">>] }

SeqsUpTo(S, n) == UNION { [1..k -> S] : k \in 0..n }

InitialFiles ==
    {NoFile, BadFile, NotArrayFile} \cup { JsonFile(d) : d \in SeqsUpTo(FileEntries, MaxFileLen) }

\* save_to_file opening the file in append mode
save_to_file_append(sts, f, outcome) ==
    CASE outcome = "ok" ->
            JsonFile((IF f.kind = "json" THEN f.data ELSE <<>>)
                     \o [i \in 1..Len(sts) |-> to_dict(sts[i])])
      [] outcome = "open_failed" -> f
      [] OTHER -> BadFile

\* StudentManager.save_to_file: full overwrite; an exception is swallowed
save_to_file(sts, f, outcome) ==
    CASE outcome = "ok" ->
            JsonFile([i \in 1..Len(sts) |-> to_dict(sts[i])])
      [] outcome = "open_failed" -> f
      [] OTHER -> BadFile

\* load_from_file skipping the items from_dict fails on
load_from_file_partial(sts, f) ==
    CASE f.kind = "missing" -> sts
      [] f.kind = "malformed" -> <<>>
      [] f.kind = "not_array" -> <<>>
      [] OTHER ->
            LET Good(item) == ~from_dict_raises(item)
                good == SelectSeq(f.data, Good)
            IN  [i \in 1..Len(good) |-> from_dict(good[i])]

\* StudentManager.load_from_file, called on the list sts
load_from_file(sts, f) ==
    CASE f.kind = "missing" -> sts
      [] f.kind = "malformed" -> <<>>
      [] f.kind = "not_array" -> <<>>
      [] OTHER ->
            IF \E i \in 1..Len(f.data) : from_dict_raises(f.data[i])
            THEN <<>>
            ELSE [i \in 1..Len(f.data) |-> from_dict(f.data[i])]

----------------------------------------------------------------------------
(* StudentManager *)

\* _find_student_by_id comparing against the stripped argument
find_student_by_id_stripped(sts, student_id) ==
    LET hits == {i \in 1..Len(sts) : sts[i].id = Strip(student_id)}
    IN  IF hits = {} THEN 0 ELSE SetMin(hits)

\* _find_student_by_id comparing the ids without regard to letter case
find_student_by_id_nocase(sts, student_id) ==
    LET hits == {i \in 1..Len(sts) : Lower(sts[i].id) = Lower(student_id)}
    IN  IF hits = {} THEN 0 ELSE SetMin(hits)

\* index of the Student _find_student_by_id returns, 0 for None
find_student_by_id(sts, student_id) ==
    LET hits == {i \in 1..Len(sts) : sts[i].id = student_id}
    IN  IF hits = {} THEN 0 ELSE SetMin(hits)

\* list.remove of the object at index i
RemoveAt(sts, i) ==
    [j \in 1..(Len(sts) - 1) |-> IF j < i THEN sts[j] ELSE sts[j + 1]]

\* a returned list: refs are the positions in __students of the Student
\* objects it holds, alias says whether it is the __students list itself
Container(alias, refs) == [alias |-> alias, refs |-> refs]

NoResult == Container(FALSE, <<>>)

\* the call a handler made: operation, arguments, return value ("raise" for
\* an exception that reaches the caller), outcome of the save, __students
\* before the call, the list returned, and what the caller did with it since
CallR(op, args, ret, saved, before, result) ==
    [op |-> op, args |-> args, ret |-> ret, saved |-> saved, before |-> before,
     result |-> result, touched |-> "none"]

Call(op, args, ret, saved, before) ==
    CallR(op, args, ret, saved, before, NoResult)

Init ==
    /\ file \in InitialFiles
    /\ students = load_from_file(<<>>, file)
    /\ last = Call("init", <<>>, "None", "none", <<>>)

\* no call is in progress and the result of the last one has been consumed
Quiescent == last.op \in {"init", "idle"}

Idle == Call("idle", <<>>, "None", "none", <<>>)

\* the handler that made the last call returns to the event loop
mainloop ==
    /\ ~Quiescent
    /\ last' = Idle
    /\ UNCHANGED <<students, file>>

\* StudentManager.__init__ on the same path (the program is started again)
Construct ==
    /\ last.op = "idle"
    /\ students' = load_from_file(<<>>, file)
    /\ file' = file
    /\ last' = Call("init", <<>>, "None", "none", <<>>)

\* the duplicate check of add_student made on the id as typed
add_rejects_unstripped(sts, name, student_id, major) ==
    \/ Strip(name) = EmptyStr
    \/ Strip(student_id) = EmptyStr
    \/ Strip(major) = EmptyStr
    \/ find_student_by_id(sts, student_id) # 0

\* add_student testing the three fields and not looking the id up
add_rejects_blank_only(sts, name, student_id, major) ==
    \/ Strip(name) = EmptyStr
    \/ Strip(student_id) = EmptyStr
    \/ Strip(major) = EmptyStr

\* the two early returns of add_student
add_rejects(sts, name, student_id, major) ==
    \/ Strip(name) = EmptyStr
    \/ Strip(student_id) = EmptyStr
    \/ Strip(major) = EmptyStr
    \/ find_student_by_id(sts, Strip(student_id)) # 0

\* add_student undoing the append and returning False when the save failed
add_student_rollback(name, student_id, major) ==
    IF add_rejects(students, name, student_id, major)
    THEN /\ students' = students
         /\ file' = file
         /\ last' = Call("add", <<name, student_id, major>>, "False",
                         "none", students)
    ELSE LET new_student == Student(Strip(name), Strip(student_id), Strip(major))
             appended == Append(students, new_student)
         IN  /\ Len(students) < MaxStudents
             /\ \E outcome \in SaveOutcomes :
                   /\ students' = IF outcome = "ok" THEN appended ELSE students
                   /\ file' = save_to_file(appended, file, outcome)
                   /\ last' = Call("add", <<name, student_id, major>>,
                                   IF outcome = "ok" THEN "True" ELSE "False",
                                   outcome, students)

add_student(name, student_id, major) ==
    IF add_rejects(students, name, student_id, major)
    THEN /\ students' = students
         /\ file' = file
         /\ last' = Call("add", <<name, student_id, major>>, "False",
                         "none", students)
    ELSE LET new_student == Student(Strip(name), Strip(student_id), Strip(major))
             appended == Append(students, new_student)
         IN  /\ Len(students) < MaxStudents
             /\ students' = appended
             /\ \E outcome \in SaveOutcomes :
                   /\ file' = save_to_file(appended, file, outcome)
                   /\ last' = Call("add", <<name, student_id, major>>, "True",
                                   outcome, students)

\* update_student testing the three new values before it calls any setter
apply_setters_validated(s, new_name, new_id_stripped, new_major) ==
    IF \/ Strip(new_name) = EmptyStr
       \/ Strip(new_id_stripped) = EmptyStr
       \/ Strip(new_major) = EmptyStr
    THEN Raised(s)
    ELSE Returned(Student(Strip(new_name), Strip(new_id_stripped),
                          Strip(new_major)))

\* the three setter calls of update_student on Student s, in program order;
\* a ValidationError leaves the fields set so far mutated
apply_setters(s, new_name, new_id_stripped, new_major) ==
    LET r1 == set_name(s, new_name)
        r2 == set_id(r1.obj, new_id_stripped)
        r3 == set_major(r2.obj, new_major)
    IN  IF r1.raised THEN r1
        ELSE IF r2.raised THEN r2
        ELSE r3

\* the uniqueness test of update_student left out
id_taken_unchecked(sts, original_student_id, new_student_id_stripped) == FALSE

\* "if changing ID, ensure uniqueness" of update_student
id_taken(sts, original_student_id, new_student_id_stripped) ==
    /\ new_student_id_stripped # original_student_id
    /\ find_student_by_id(sts, new_student_id_stripped) # 0

\* update_student calling save_to_file in its except branch as well
update_student_saving(original_student_id, new_name, new_student_id, new_major) ==
    LET idx == find_student_by_id(students, original_student_id)
        new_student_id_stripped == Strip(new_student_id)
        args == <<original_student_id, new_name, new_student_id, new_major>>
    IN  IF idx = 0
        THEN /\ students' = students
             /\ file' = file
             /\ last' = Call("update", args, "False", "none", students)
        ELSE IF id_taken(students, original_student_id, new_student_id_stripped)
        THEN /\ students' = students
             /\ file' = file
             /\ last' = Call("update", args, "False", "none", students)
        ELSE LET r == apply_setters(students[idx], new_name,
                                    new_student_id_stripped, new_major)
                 mutated == [students EXCEPT ![idx] = r.obj]
             IN  /\ students' = mutated
                 /\ \E outcome \in SaveOutcomes :
                       /\ file' = save_to_file(mutated, file, outcome)
                       /\ last' = Call("update", args,
                                       IF r.raised THEN "False" ELSE "True",
                                       outcome, students)

update_student(original_student_id, new_name, new_student_id, new_major) ==
    LET idx == find_student_by_id(students, original_student_id)
        new_student_id_stripped == Strip(new_student_id)
        args == <<original_student_id, new_name, new_student_id, new_major>>
    IN  IF idx = 0
        THEN /\ students' = students
             /\ file' = file
             /\ last' = Call("update", args, "False", "none", students)
        ELSE IF id_taken(students, original_student_id, new_student_id_stripped)
        THEN /\ students' = students
             /\ file' = file
             /\ last' = Call("update", args, "False", "none", students)
        ELSE LET r == apply_setters(students[idx], new_name,
                                    new_student_id_stripped, new_major)
                 mutated == [students EXCEPT ![idx] = r.obj]
             IN  IF r.raised
                 THEN /\ students' = mutated
                      /\ file' = file
                      /\ last' = Call("update", args, "False", "none", students)
                 ELSE /\ students' = mutated
                      /\ \E outcome \in SaveOutcomes :
                            /\ file' = save_to_file(mutated, file, outcome)
                            /\ last' = Call("update", args, "True", outcome,
                                            students)

\* delete_student looking the Student up by the stripped id
delete_student_stripped(student_id) ==
    LET idx == find_student_by_id(students, Strip(student_id))
    IN  IF idx # 0
        THEN LET removed == RemoveAt(students, idx)
             IN  /\ students' = removed
                 /\ \E outcome \in SaveOutcomes :
                       /\ file' = save_to_file(removed, file, outcome)
                       /\ last' = Call("delete", <<student_id>>, "True", outcome,
                                       students)
        ELSE /\ students' = students
             /\ file' = file
             /\ last' = Call("delete", <<student_id>>, "False", "none", students)

\* delete_student removing the last Student that has the id
delete_student_last(student_id) ==
    LET hits == {i \in 1..Len(students) : students[i].id = student_id}
    IN  IF hits # {}
        THEN LET removed == RemoveAt(students, SetMax(hits))
             IN  /\ students' = removed
                 /\ \E outcome \in SaveOutcomes :
                       /\ file' = save_to_file(removed, file, outcome)
                       /\ last' = Call("delete", <<student_id>>, "True", outcome,
                                       students)
        ELSE /\ students' = students
             /\ file' = file
             /\ last' = Call("delete", <<student_id>>, "False", "none", students)

delete_student(student_id) ==
    LET idx == find_student_by_id(students, student_id)
    IN  IF idx # 0
        THEN LET removed == RemoveAt(students, idx)
             IN  /\ students' = removed
                 /\ \E outcome \in SaveOutcomes :
                       /\ file' = save_to_file(removed, file, outcome)
                       /\ last' = Call("delete", <<student_id>>, "True", outcome,
                                       students)
        ELSE /\ students' = students
             /\ file' = file
             /\ last' = Call("delete", <<student_id>>, "False", "none", students)

\* sort_students testing by == "name" and falling back to the id
sort_key_default_id(s, by) == IF by = "name" THEN Lower(s.name) ELSE Lower(s.id)

\* key function chosen by sort_students
sort_key(s, by) == IF by = "id" THEN Lower(s.id) ELSE Lower(s.name)

\* x goes behind every element that list.sort keeps in front of it:
\* smaller-or-equal keys when ascending, greater-or-equal keys when reversed
stays_in_front(y, x, by, reverse) ==
    IF reverse
    THEN ~StrLess(sort_key(y, by), sort_key(x, by))
    ELSE ~StrLess(sort_key(x, by), sort_key(y, by))

\* the sort keeping one Student per key: x is left out when a Student with
\* an equal key is already placed
insert_sorted_unique(sorted, x, by, reverse) ==
    LET front == {i \in 1..Len(sorted) : stays_in_front(sorted[i], x, by, reverse)}
        k == IF front = {} THEN 0 ELSE SetMax(front)
    IN  IF \E i \in 1..Len(sorted) : sort_key(sorted[i], by) = sort_key(x, by)
        THEN sorted
        ELSE SubSeq(sorted, 1, k) \o <<x>> \o SubSeq(sorted, k + 1, Len(sorted))

insert_sorted(sorted, x, by, reverse) ==
    LET front == {i \in 1..Len(sorted) : stays_in_front(sorted[i], x, by, reverse)}
        k == IF front = {} THEN 0 ELSE SetMax(front)
    IN  SubSeq(sorted, 1, k) \o <<x>> \o SubSeq(sorted, k + 1, Len(sorted))

RECURSIVE list_sort(_, _, _)
\* list.sort(key=..., reverse=...): stable in both directions
list_sort(sts, by, reverse) ==
    IF sts = <<>>
    THEN <<>>
    ELSE insert_sorted(list_sort(SubSeq(sts, 1, Len(sts) - 1), by, reverse),
                       sts[Len(sts)], by, reverse)

\* the key lambda of sort_students raises AttributeError on some Student
sort_key_raises(sts, by) ==
    \E i \in 1..Len(sts) :
        IF by = "id" THEN ~IsStr(sts[i].id) ELSE ~IsStr(sts[i].name)

sort_students(by, ascending) ==
    LET reverse == ~ascending
        sorted == list_sort(students, by, reverse)
    IN  IF sort_key_raises(students, by)
        THEN /\ students' = students
             /\ file' = file
             /\ last' = Call("sort", <<by, ascending>>, "raise", "none", students)
        ELSE /\ students' = sorted
             /\ \E outcome \in SaveOutcomes :
                   /\ file' = save_to_file(sorted, file, outcome)
                   /\ last' = Call("sort", <<by, ascending>>, "None", outcome,
                                   students)

\* get_all_students returning self.__students itself
list_copy_aliased(sts) == Container(TRUE, [i \in 1..Len(sts) |-> i])

\* self.__students.copy(): a new list holding the same Student objects
list_copy(sts) == Container(FALSE, [i \in 1..Len(sts) |-> i])

get_all_students ==
    /\ last' = CallR("get_all", <<>>, "list", "none", students, list_copy(students))
    /\ UNCHANGED <<students, file>>

\* the test of the loop body of search_students
search_match(s, query) ==
    \/ Contains(Lower(s.name), query)
    \/ Contains(Lower(s.id), query)

\* .lower() raises AttributeError in the loop of search_students: on a name
\* that is not a str, or on such an id once the name did not match
search_raises(sts, query) ==
    \E i \in 1..Len(sts) :
        \/ ~IsStr(sts[i].name)
        \/ /\ ~Contains(Lower(sts[i].name), query)
           /\ ~IsStr(sts[i].id)

\* the result list built by the loop of search_students
search_result(sts, query) ==
    LET Match(i) == search_match(sts[i], query)
    IN  Container(FALSE, SelectSeq([i \in 1..Len(sts) |-> i], Match))

\* search_students lower-casing the query without stripping it
normalize_query_unstripped(query) == Lower(query)

\* query.strip().lower()
normalize_query(query) == Lower(Strip(query))

search_students(query) ==
    LET q == normalize_query(query)
    IN  /\ UNCHANGED <<students, file>>
        /\ IF q = EmptyStr
           THEN last' = CallR("search", <<query>>, "list", "none", students,
                              list_copy(students))
           ELSE IF search_raises(students, q)
           THEN last' = Call("search", <<query>>, "raise", "none", students)
           ELSE last' = CallR("search", <<query>>, "list", "none", students,
                              search_result(students, q))

\* the caller holds the list the last call returned and has not used it yet
HoldsList ==
    /\ last.op \in {"get_all", "search"}
    /\ last.ret = "list"
    /\ last.touched = "none"

\* list.clear / list.reverse / list.pop / list.append on a list
list_op(l, op, x) ==
    CASE op = "clear" -> <<>>
      [] op = "reverse" -> [i \in 1..Len(l) |-> l[Len(l) + 1 - i]]
      [] op = "pop" -> SubSeq(l, 1, Len(l) - 1)
      [] OTHER -> Append(l, x)

\* the caller changes the list it received; the change lands in __students
\* only when the list is __students itself
caller_changes_list(op) ==
    /\ HoldsList
    /\ last.result.refs # <<>>
    /\ last' = [last EXCEPT !.result.refs = list_op(@, op, last.result.refs[1]),
                            !.touched = "container"]
    /\ students' = IF last.result.alias
                   THEN list_op(students, op, students[1])
                   ELSE students
    /\ file' = file

\* the caller calls a setter on the k-th Student of the list it received;
\* the object is the one __students holds
caller_sets_field(k, field, value) ==
    /\ HoldsList
    /\ k \in 1..Len(last.result.refs)
    /\ LET ref == last.result.refs[k]
           r == CASE field = "name" -> set_name(students[ref], value)
                  [] field = "id" -> set_id(students[ref], value)
                  [] OTHER -> set_major(students[ref], value)
       IN  students' = [students EXCEPT ![ref] = r.obj]
    /\ last' = [last EXCEPT !.touched = "record"]
    /\ file' = file

Next ==
    \/ mainloop
    \/ Construct
    \/ /\ Quiescent
       /\ \E n \in NameInputs, i \in IdInputs, m \in MajorInputs :
             add_student(n, i, m)
    \/ /\ Quiescent
       /\ \E orig \in IdInputs, n \in NameInputs, i \in IdInputs,
             m \in MajorInputs :
             update_student(orig, n, i, m)
    \/ /\ Quiescent
       /\ \E i \in IdInputs : delete_student(i)
    \/ /\ Quiescent
       /\ \E by \in ByInputs, asc \in BOOLEAN : sort_students(by, asc)
    \/ /\ Quiescent
       /\ get_all_students
    \/ /\ Quiescent
       /\ \E q \in QueryInputs : search_students(q)

Spec == Init /\ [][Next]_vars

\* a caller that, unlike StudentApp, writes to what get_all_students and
\* search_students hand out
NextCaller ==
    \/ mainloop
    \/ /\ Quiescent
       /\ \E n \in NameInputs, i \in IdInputs, m \in MajorInputs :
             add_student(n, i, m)
    \/ /\ Quiescent
       /\ get_all_students
    \/ /\ Quiescent
       /\ \E q \in QueryInputs : search_students(q)
    \/ \E op \in ListOps : caller_changes_list(op)
    \/ \E k \in 1..MaxStudents + MaxFileLen :
          \/ \E v \in NameInputs : caller_sets_field(k, "name", v)
          \/ \E v \in IdInputs : caller_sets_field(k, "id", v)
          \/ \E v \in MajorInputs : caller_sets_field(k, "major", v)

SpecCaller == Init /\ [][NextCaller]_vars

----------------------------------------------------------------------------
(* The Student class on its own *)

RecordStrs == SeqsUpTo({" ", "a"}, MaxStrLen)

\* field mappings handed to from_dict: complete ones and ones without an id
RecordDicts ==
    { [name |-> n, student_id |-> i, major |-> m] :
          n \in RecordStrs, i \in RecordStrs, m \in RecordStrs }
    \cup { [name |-> n, major |-> m] : n \in RecordStrs, m \in RecordStrs }

InitRecord ==
    /\ students = <<>>
    /\ file = NoFile
    /\ last = Idle

Setters == { "set_name", "set_id", "set_major" }

\* Student(name, student_id, major) called directly; the object made is kept
\* as the only element of students, and its setters are called from then on
construct_student(name, student_id, major) ==
    /\ last.op = "idle"
    /\ students' = <<Student(name, student_id, major)>>
    /\ file' = file
    /\ last' = Call("Student", <<name, student_id, major>>, "object", "none",
                    <<>>)

\* Student.from_dict(data) called directly
construct_from_dict(data) ==
    /\ last.op = "idle"
    /\ file' = file
    /\ IF from_dict_raises(data)
       THEN /\ students' = <<>>
            /\ last' = Call("from_dict", <<data>>, "KeyError", "none", <<>>)
       ELSE /\ students' = <<from_dict(data)>>
            /\ last' = Call("from_dict", <<data>>, "object", "none", <<>>)

\* set_name / set_id / set_major called on the object constructed
call_setter(setter, value) ==
    /\ students # <<>>
    /\ LET r == CASE setter = "set_name" -> set_name(students[1], value)
                 [] setter = "set_id" -> set_id(students[1], value)
                 [] OTHER -> set_major(students[1], value)
       IN  /\ students' = <<r.obj>>
           /\ last' = Call(setter, <<value>>,
                           IF r.raised THEN "ValidationError" ELSE "None",
                           "none", students)
    /\ file' = file

NextRecord ==
    \/ \E n \in RecordStrs, i \in RecordStrs, m \in RecordStrs :
          construct_student(n, i, m)
    \/ \E d \in RecordDicts : construct_from_dict(d)
    \/ \E setter \in Setters, v \in RecordStrs : call_setter(setter, v)

SpecRecord == InitRecord /\ [][NextRecord]_vars

----------------------------------------------------------------------------
(* Two threads calling add_student on one StudentManager *)

Threads == {1, 2}

\* where a thread is in add_student, the arguments of its call and what its
\* last call returned
ThreadCall(pc, args, ret) == [pc |-> pc, args |-> args, ret |-> ret]

NotCalled == ThreadCall("idle", <<>>, "None")

\* a new store on a path without a file; the host either guards every call
\* with one exclusive lock or does not, and last keeps the lock and the calls
InitThreads ==
    /\ students = <<>>
    /\ file = NoFile
    /\ \E locking \in BOOLEAN :
          last = [op |-> "threads", locking |-> locking, lock |-> 0,
                  calls |-> [t \in Threads |-> NotCalled]]

\* the calls of add_student that have not returned
InCall == {t \in Threads : last.calls[t].pc # "idle"}

\* the host's lock lets a thread enter: it is not used, or nobody holds it
lock_free == last.locking => last.lock = 0

\* thread t calls add_student (taking the lock first where the host uses one)
thread_calls_add(t, name, student_id, major) ==
    /\ last.calls[t].pc = "idle"
    /\ Len(students) + Cardinality(InCall) < MaxStudents
    /\ lock_free
    /\ last' = [last EXCEPT
                   !.calls[t] = ThreadCall("check", <<name, student_id, major>>,
                                           "None"),
                   !.lock = IF last.locking THEN t ELSE 0]
    /\ UNCHANGED <<students, file>>

\* the two tests at the top of add_student: return False, or go on
thread_checks(t) ==
    /\ last.calls[t].pc = "check"
    /\ LET a == last.calls[t].args
       IN  IF add_rejects(students, a[1], a[2], a[3])
           THEN last' = [last EXCEPT !.calls[t].pc = "idle",
                                     !.calls[t].ret = "False",
                                     !.lock = 0]
           ELSE last' = [last EXCEPT !.calls[t].pc = "append"]
    /\ UNCHANGED <<students, file>>

\* new_student = Student(...); self.__students.append(new_student)
thread_appends(t) ==
    /\ last.calls[t].pc = "append"
    /\ LET a == last.calls[t].args
       IN  students' = Append(students,
                              Student(Strip(a[1]), Strip(a[2]), Strip(a[3])))
    /\ last' = [last EXCEPT !.calls[t].pc = "save"]
    /\ file' = file

\* self.save_to_file(); return True (the lock is given back on return)
thread_saves(t, outcome) ==
    /\ last.calls[t].pc = "save"
    /\ file' = save_to_file(students, file, outcome)
    /\ last' = [last EXCEPT !.calls[t].pc = "idle",
                            !.calls[t].ret = "True",
                            !.lock = 0]
    /\ students' = students

NextThreads ==
    \/ \E t \in Threads, n \in NameInputs, i \in IdInputs, m \in MajorInputs :
          thread_calls_add(t, n, i, m)
    \/ \E t \in Threads : thread_checks(t)
    \/ \E t \in Threads : thread_appends(t)
    \/ \E t \in Threads, outcome \in SaveOutcomes : thread_saves(t, outcome)

SpecThreads == InitThreads /\ [][NextThreads]_vars

----------------------------------------------------------------------------
(* Claims *)

\* C1: in every reachable state no two Students of the store have the same id.
\* Stated as claimed; load_from_file appends every JSON object without a
\* uniqueness check, so a file with a repeated student_id breaks it.
C1_UniqueIds ==
    \A i, j \in 1..Len(students) :
        i # j => students[i].id # students[j].id

\* C2: after an add, update or delete that returned True, and after a sort,
\* when the write succeeded, the file holds one JSON object per Student, in
\* store order, with the Student's three field values, and loading the file
\* into a new store gives back the in-memory sequence.
C2_FileMirrorsStore ==
    ( /\ \/ last.op \in {"add", "update", "delete"} /\ last.ret = "True"
         \/ last.op = "sort"
      /\ last.saved = "ok" )
    => /\ file.kind = "json"
       /\ Len(file.data) = Len(students)
       /\ \A i \in 1..Len(students) :
             /\ DOMAIN file.data[i] = DictKeys
             /\ file.data[i]["name"] = students[i].name
             /\ file.data[i]["student_id"] = students[i].id
             /\ file.data[i]["major"] = students[i].major
       /\ load_from_file(<<>>, file) = students

\* C2 witness: a successful update of the second of two Students was written
\* over a file that held something else.
C2_Witness ==
    /\ last.op = "update"
    /\ last.ret = "True"
    /\ last.saved = "ok"
    /\ Len(students) = 2
    /\ students[2] # last.before[2]
    /\ load_from_file(<<>>, file) = students

\* C3: add returns False and leaves the sequence unchanged when an input is
\* empty after trimming or the trimmed id is the id of a stored Student.
C3_AddRejects ==
    ( /\ last.op = "add"
      /\ \/ Strip(last.args[1]) = EmptyStr
         \/ Strip(last.args[2]) = EmptyStr
         \/ Strip(last.args[3]) = EmptyStr
         \/ \E i \in 1..Len(last.before) : last.before[i].id = Strip(last.args[2]) )
    => /\ last.ret = "False"
       /\ students = last.before

\* C3 witness: an add whose fields are all valid and whose id, written with
\* surrounding whitespace, trims to a stored id, was rejected.
C3_Witness ==
    /\ last.op = "add"
    /\ last.ret = "False"
    /\ Strip(last.args[1]) # EmptyStr
    /\ Strip(last.args[3]) # EmptyStr
    /\ last.args[2] # Strip(last.args[2])
    /\ \E i \in 1..Len(last.before) : last.before[i].id = Strip(last.args[2])
    /\ \A i \in 1..Len(last.before) : last.before[i].id # last.args[2]

\* C4: add with three inputs that are non-empty after trimming and a trimmed
\* id not in the store returns True and appends one Student holding the
\* trimmed values; on an empty store the result holds exactly that Student.
C4_AddAppends ==
    ( /\ last.op = "add"
      /\ Strip(last.args[1]) # EmptyStr
      /\ Strip(last.args[2]) # EmptyStr
      /\ Strip(last.args[3]) # EmptyStr
      /\ \A i \in 1..Len(last.before) : last.before[i].id # Strip(last.args[2]) )
    => /\ last.ret = "True"
       /\ Len(students) = Len(last.before) + 1
       /\ SubSeq(students, 1, Len(last.before)) = last.before
       /\ students[Len(students)].name = Strip(last.args[1])
       /\ students[Len(students)].id = Strip(last.args[2])
       /\ students[Len(students)].major = Strip(last.args[3])
       /\ last.before = <<>> => Len(students) = 1

\* C4 witness: an add with untrimmed name, id and major succeeded on a store
\* that already held a Student.
C4_Witness ==
    /\ last.op = "add"
    /\ last.ret = "True"
    /\ Len(last.before) = 1
    /\ Len(students) = 2
    /\ last.args[1] # Strip(last.args[1])
    /\ last.args[2] # Strip(last.args[2])
    /\ last.args[3] # Strip(last.args[3])

\* C5: update whose trimmed new id differs from original_id and is the id of
\* a different Student returns False and leaves the whole store unchanged.
C5_UpdateIdConflict ==
    ( /\ last.op = "update"
      /\ Strip(last.args[3]) # last.args[1]
      /\ \E j \in 1..Len(last.before) :
            /\ last.before[j].id = Strip(last.args[3])
            /\ j # find_student_by_id(last.before, last.args[1]) )
    => /\ last.ret = "False"
       /\ students = last.before

\* C5 witness: original_id was found, name and major were valid, and the new
\* id belonged to another Student.
C5_Witness ==
    /\ last.op = "update"
    /\ last.ret = "False"
    /\ find_student_by_id(last.before, last.args[1]) # 0
    /\ Strip(last.args[2]) # EmptyStr
    /\ Strip(last.args[4]) # EmptyStr
    /\ Strip(last.args[3]) # last.args[1]
    /\ \E j \in 1..Len(last.before) :
          /\ last.before[j].id = Strip(last.args[3])
          /\ j # find_student_by_id(last.before, last.args[1])

\* C6: update with an original_id that no Student has returns False and
\* leaves the store unchanged, whatever the other arguments are.
C6_UpdateAbsent ==
    ( /\ last.op = "update"
      /\ \A i \in 1..Len(last.before) : last.before[i].id # last.args[1] )
    => /\ last.ret = "False"
       /\ students = last.before

\* C6 witness: the other three arguments were valid and original_id differed
\* from a stored id only by surrounding whitespace.
C6_Witness ==
    /\ last.op = "update"
    /\ last.ret = "False"
    /\ \A i \in 1..Len(last.before) : last.before[i].id # last.args[1]
    /\ \E i \in 1..Len(last.before) : last.before[i].id = Strip(last.args[1])
    /\ Strip(last.args[2]) # EmptyStr
    /\ Strip(last.args[3]) # EmptyStr
    /\ Strip(last.args[4]) # EmptyStr
    /\ \A i \in 1..Len(last.before) : last.before[i].id # Strip(last.args[3])

\* C7: update with a present original_id, a trimmed new id equal to
\* original_id or absent from the store, and three values non-empty after
\* trimming returns True; the Student found holds exactly the trimmed values
\* at its old position and the rest of the sequence is unchanged.
C7_UpdateSucceeds ==
    ( /\ last.op = "update"
      /\ \E i \in 1..Len(last.before) : last.before[i].id = last.args[1]
      /\ \/ Strip(last.args[3]) = last.args[1]
         \/ \A i \in 1..Len(last.before) : last.before[i].id # Strip(last.args[3])
      /\ Strip(last.args[2]) # EmptyStr
      /\ Strip(last.args[3]) # EmptyStr
      /\ Strip(last.args[4]) # EmptyStr )
    => LET idx == find_student_by_id(last.before, last.args[1])
       IN  /\ last.ret = "True"
           /\ Len(students) = Len(last.before)
           /\ students[idx].name = Strip(last.args[2])
           /\ students[idx].id = Strip(last.args[3])
           /\ students[idx].major = Strip(last.args[4])
           /\ \A i \in 1..Len(students) : i # idx => students[i] = last.before[i]

\* C7 witness: the second of two Students was updated and all three of its
\* fields changed.
C7_Witness ==
    /\ last.op = "update"
    /\ last.ret = "True"
    /\ Len(last.before) = 2
    /\ find_student_by_id(last.before, last.args[1]) = 2
    /\ students[2].name # last.before[2].name
    /\ students[2].id # last.before[2].id
    /\ students[2].major # last.before[2].major
    /\ students[1] = last.before[1]

\* C8: delete of a present id returns True and afterwards no Student of the
\* store has that id.  Stated as claimed; with the repeated ids that
\* load_from_file admits (C1) only the first of them is removed.
C8_DeleteRemovesId ==
    ( /\ last.op = "delete"
      /\ \E i \in 1..Len(last.before) : last.before[i].id = last.args[1] )
    => /\ last.ret = "True"
       /\ \A i \in 1..Len(students) : students[i].id # last.args[1]

\* C9: delete of an id that no Student has returns False and leaves the
\* sequence unchanged.
C9_DeleteAbsent ==
    ( /\ last.op = "delete"
      /\ \A i \in 1..Len(last.before) : last.before[i].id # last.args[1] )
    => /\ last.ret = "False"
       /\ students = last.before

\* C9 witness: the id asked for differed from a stored id only by
\* surrounding whitespace and nothing was removed.
C9_Witness ==
    /\ last.op = "delete"
    /\ last.ret = "False"
    /\ Len(last.before) = 2
    /\ \A i \in 1..Len(last.before) : last.before[i].id # last.args[1]
    /\ \E i \in 1..Len(last.before) : last.before[i].id = Strip(last.args[1])

\* C10: in every reachable state every Student has a name, an id and a major
\* that are non-empty after trimming.  Stated as claimed; Student.__init__
\* assigns without validating, so from_dict loads empty fields from the file.
C10_FieldsNonEmpty ==
    \A i \in 1..Len(students) :
        /\ Strip(students[i].name) # EmptyStr
        /\ Strip(students[i].id) # EmptyStr
        /\ Strip(students[i].major) # EmptyStr

\* C11: loading never raises to the caller; a missing file gives an empty
\* store, and a file that is unparseable, not an array of objects, or has an
\* entry lacking one of name/student_id/major gives an empty store as a
\* whole, without the well-formed entries.
C11_LoadAllOrNothing ==
    last.op = "init"
    => /\ last.ret = "None"
       /\ file.kind = "missing" => students = <<>>
       /\ file.kind \in {"malformed", "not_array"} => students = <<>>
       /\ ( /\ file.kind = "json"
            /\ \E i \in 1..Len(file.data) :
                  \/ "json_value" \in DOMAIN file.data[i]
                  \/ "name" \notin DOMAIN file.data[i]
                  \/ "student_id" \notin DOMAIN file.data[i]
                  \/ "major" \notin DOMAIN file.data[i] )
          => students = <<>>

\* C11 witness: the store was constructed on a file whose first entry is
\* well formed and whose second entry lacks student_id, and it is empty.
C11_Witness ==
    /\ last.op = "init"
    /\ file.kind = "json"
    /\ Len(file.data) = 2
    /\ DOMAIN file.data[1] = DictKeys
    /\ DOMAIN file.data[2] = {"name", "major"}
    /\ students = <<>>

\* C12: when the write fails during an add, update, delete or sort, nothing
\* is raised, add/update/delete return True and the in-memory change is
\* kept, so that memory and file may differ.
C12_SaveFailureKept ==
    last.saved \in {"open_failed", "write_failed"}
    => /\ last.ret # "raise"
       /\ last.op \in {"add", "update", "delete"} => last.ret = "True"
       /\ last.op = "add" =>
             students = Append(last.before,
                               [name |-> Strip(last.args[1]),
                                id |-> Strip(last.args[2]),
                                major |-> Strip(last.args[3])])
       /\ last.op = "update" =>
             \E i \in 1..Len(last.before) :
                /\ last.before[i].id = last.args[1]
                /\ students = [last.before EXCEPT
                                  ![i] = [name |-> Strip(last.args[2]),
                                          id |-> Strip(last.args[3]),
                                          major |-> Strip(last.args[4])]]
       /\ last.op = "delete" =>
             \E i \in 1..Len(last.before) :
                /\ last.before[i].id = last.args[1]
                /\ Len(students) = Len(last.before) - 1
                /\ \A j \in 1..Len(students) :
                      students[j] = last.before[IF j < i THEN j ELSE j + 1]
       /\ last.op = "sort" =>
             /\ Len(students) = Len(last.before)
             /\ \A i \in 1..Len(students) :
                   Cardinality({j \in 1..Len(students) : students[j] = students[i]})
                   = Cardinality({j \in 1..Len(students) :
                                     last.before[j] = students[i]})

\* C12 witness: an add whose write failed returned True, the Student is in
\* memory, and a store constructed from the file would not hold it.
C12_Witness ==
    /\ last.op = "add"
    /\ last.saved = "write_failed"
    /\ last.ret = "True"
    /\ Len(students) = Len(last.before) + 1
    /\ load_from_file(<<>>, file) # students

\* C13: no store operation raises an exception to its caller in any
\* reachable state.  Stated as claimed; a JSON entry whose name is not a str
\* loads, and sort_students and search_students then raise AttributeError.
C13_NoRaise == last.ret # "raise"

\* C14: the list get_all_students returns is independent of the store:
\* adding to it, removing from it, reordering it or clearing it leaves the
\* store's sequence, and so the result of a later get_all, unchanged.
C14_ContainerIndependent ==
    last.touched = "container"
    => /\ students = last.before
       /\ list_copy(students).refs = [i \in 1..Len(last.before) |-> i]

\* C14 witness: a caller cleared the list get_all_students returned for a
\* store of two Students.
C14_Witness ==
    /\ last.op = "get_all"
    /\ last.touched = "container"
    /\ last.result.refs = <<>>
    /\ Len(students) = 2

\* C15: nothing a caller does to a Record it received from get_all or search
\* changes a Record held by the store.  Stated as claimed; the lists hold the
\* store's own Student objects, so a setter call on one changes the store.
C15_NoAliasing ==
    last.touched = "record" => students = last.before

\* C16: for a query non-empty after trimming, search returns exactly the
\* Records whose lower-cased name or id contains the trimmed lower-cased
\* query, each once, in store order.  Stated as claimed; on a store holding
\* a name that is not a str (C13) the call raises instead.
C16_SearchExact ==
    ( /\ last.op = "search"
      /\ Strip(last.args[1]) # EmptyStr )
    => /\ last.ret = "list"
       /\ \A k \in 1..(Len(last.result.refs) - 1) :
             last.result.refs[k] < last.result.refs[k + 1]
       /\ {last.result.refs[k] : k \in 1..Len(last.result.refs)}
          = {i \in 1..Len(students) :
                \/ Contains(Lower(students[i].name), Lower(Strip(last.args[1])))
                \/ Contains(Lower(students[i].id), Lower(Strip(last.args[1])))}

\* C17: search with an empty or whitespace-only query returns the same
\* Records in the same order as get_all.
C17_EmptyQueryIsGetAll ==
    ( /\ last.op = "search"
      /\ Strip(last.args[1]) = EmptyStr )
    => /\ last.ret = "list"
       /\ last.result.refs = [i \in 1..Len(students) |-> i]
       /\ students = last.before

\* C17 witness: a whitespace-only query on a store of two Students returned
\* both of them.
C17_Witness ==
    /\ last.op = "search"
    /\ last.args[1] # EmptyStr
    /\ Strip(last.args[1]) = EmptyStr
    /\ last.touched = "none"
    /\ Len(students) = 2
    /\ last.result.refs = <<1, 2>>

\* C18: after sort(by, ascending) with by in {name, id} the sequence is
\* ordered by the lower-cased field, non-decreasing when ascending and
\* non-increasing otherwise, and Records with equal keys keep their order.
\* Stated as claimed; on a store holding a name that is not a str (C13) the
\* call raises and leaves the sequence as it was.
C18_SortOrdered ==
    ( /\ last.op = "sort"
      /\ last.args[1] \in {"name", "id"} )
    => LET key(s) == IF last.args[1] = "id" THEN Lower(s.id) ELSE Lower(s.name)
       IN  /\ last.ret = "None"
           /\ \A i, j \in 1..Len(students) :
                 i < j =>
                    IF last.args[2]
                    THEN ~StrLess(key(students[j]), key(students[i]))
                    ELSE ~StrLess(key(students[i]), key(students[j]))
           /\ \A i, j \in 1..Len(students) :
                 (i < j /\ key(students[i]) = key(students[j])) =>
                    \E a, b \in 1..Len(last.before) :
                       /\ a < b
                       /\ last.before[a] = students[i]
                       /\ last.before[b] = students[j]

\* C19: sort with a by value other than "name" or "id" leaves the same
\* sequence as sort with by = "name" does, for both directions.
C19_OtherKeyIsName ==
    ( /\ last.op = "sort"
      /\ last.args[1] \notin {"name", "id"} )
    => IF sort_key_raises(last.before, "name")
       THEN last.ret = "raise" /\ students = last.before
       ELSE /\ last.ret = "None"
            /\ students = list_sort(last.before, "name", ~last.args[2])

\* C19 witness: a sort by "major" reordered two Students, and a sort by id
\* would have left another order.
C19_Witness ==
    /\ last.op = "sort"
    /\ last.args[1] = "major"
    /\ last.ret = "None"
    /\ Len(students) = 2
    /\ students # last.before
    /\ students # list_sort(last.before, "id", ~last.args[2])

\* C20: constructing a Record fails with ValidationError whenever one of the
\* three fields is empty after trimming, by direct construction or by
\* deserialization.  Stated as claimed; Student.__init__ assigns the fields
\* without checking them.
C20_ConstructValidates ==
    /\ ( /\ last.op = "Student"
         /\ \E k \in 1..3 : Strip(last.args[k]) = EmptyStr )
       => last.ret = "ValidationError" /\ students = <<>>
    /\ ( /\ last.op = "from_dict"
         /\ DOMAIN last.args[1] = DictKeys
         /\ \E key \in DictKeys : Strip(last.args[1][key]) = EmptyStr )
       => last.ret = "ValidationError" /\ students = <<>>

\* C21: a setter called with a value that is non-empty after trimming stores
\* the trimmed value in its own field and leaves the other two fields as they
\* were; called with a value that is empty after trimming it raises
\* ValidationError and leaves all three fields as they were.
C21_SetterContract ==
    last.op \in Setters =>
        LET old == last.before[1]
            new == students[1]
            value == last.args[1]
            own == CASE last.op = "set_name" -> "name"
                     [] last.op = "set_id" -> "id"
                     [] OTHER -> "major"
        IN  IF Strip(value) # EmptyStr
            THEN /\ last.ret = "None"
                 /\ new[own] = Strip(value)
                 /\ \A f \in {"name", "id", "major"} \ {own} : new[f] = old[f]
            ELSE /\ last.ret = "ValidationError"
                 /\ new = old

\* set_name refused a blank value on an object whose name was not blank
C21_Witness ==
    /\ last.op = "set_name"
    /\ last.args[1] = <<" ">>
    /\ last.ret = "ValidationError"
    /\ students[1].name = <<"a">>
    /\ students[1].id # students[1].major

\* C22: update applies the setters in the order name, id, major.  When the
\* original id is present, the new id does not conflict, the new name is valid
\* and the new id or the new major is empty after trimming, update returns
\* false, the Student found holds the new trimmed name (and the new trimmed id
\* when it was the major that failed), the failing field and the fields after
\* it keep their old values, and no other Student changes.
C22_UpdatePartial ==
    LET original == last.args[1]
        new_id == Strip(last.args[3])
        found == {k \in 1..Len(last.before) : last.before[k].id = original}
        conflict == /\ new_id # original
                    /\ \E k \in 1..Len(last.before) : last.before[k].id = new_id
    IN  ( /\ last.op = "update"
          /\ found # {}
          /\ ~conflict
          /\ Strip(last.args[2]) # EmptyStr
          /\ new_id = EmptyStr \/ Strip(last.args[4]) = EmptyStr )
        => LET idx == SetMin(found)
               old == last.before[idx]
               new == students[idx]
           IN  /\ last.ret = "False"
               /\ Len(students) = Len(last.before)
               /\ \A k \in 1..Len(students) : k # idx => students[k] = last.before[k]
               /\ new.name = Strip(last.args[2])
               /\ new.id = IF new_id = EmptyStr THEN old.id ELSE new_id
               /\ new.major = old.major

\* an update refused for its blank major has already changed the name and the
\* id of the Student it found
C22_Witness ==
    /\ last.op = "update"
    /\ last.ret = "False"
    /\ Strip(last.args[4]) = EmptyStr
    /\ \E k \in 1..Len(students) :
          /\ last.before[k].id = last.args[1]
          /\ students[k].name # last.before[k].name
          /\ students[k].id # last.before[k].id
          /\ students[k].major = last.before[k].major

\* C23: lookup by id is exact string equality with the stored ids, without
\* trimming or case folding.  delete(x) returns true exactly when some stored
\* id equals x, update(x, ...) returns true only when some stored id equals x,
\* and add with three valid fields returns true and appends whenever no stored
\* id equals its trimmed id, also when a stored id differs from it only in
\* letter case.
C23_ExactLookup ==
    LET Stored(x) == \E k \in 1..Len(last.before) : last.before[k].id = x
    IN  /\ last.op = "delete" => (last.ret = "True" <=> Stored(last.args[1]))
        /\ last.op = "update" => (last.ret = "True" => Stored(last.args[1]))
        /\ ( /\ last.op = "add"
              /\ \A k \in 1..3 : Strip(last.args[k]) # EmptyStr
              /\ ~Stored(Strip(last.args[2])) )
            => /\ last.ret = "True"
               /\ Len(students) = Len(last.before) + 1
               /\ SubSeq(students, 1, Len(last.before)) = last.before
               /\ students[Len(students)].id = Strip(last.args[2])

\* add accepted an id while the store held the same id in the other letter
\* case, and holds both afterwards
C23_Witness ==
    /\ last.op = "add"
    /\ last.ret = "True"
    /\ \E k \in 1..Len(last.before) :
          /\ students[k].id # students[Len(students)].id
          /\ Lower(students[k].id) = Lower(students[Len(students)].id)

\* C25: the backing file is written only by add, update and delete calls that
\* return true and by sort.  A step that changes the file is one of those
\* calls; add, update and delete returning false (an update that failed after
\* changing a Student included), get_all and search leave the file as it was,
\* and get_all and search leave the sequence in memory as it was too.
C25_FileWriters ==
    [][ /\ file' # file
           => \/ last'.op \in {"add", "update", "delete"} /\ last'.ret = "True"
              \/ last'.op = "sort"
        /\ ( /\ last'.op \in {"add", "update", "delete"}
              /\ last'.ret = "False" )
           => file' = file
        /\ last'.op \in {"get_all", "search"}
           => file' = file /\ students' = students ]_vars

\* an update returned false after changing a Student, and the file still holds
\* the sequence as it was before the call
C25_Witness ==
    /\ last.op = "update"
    /\ last.ret = "False"
    /\ students # last.before
    /\ file = JsonFile([i \in 1..Len(last.before) |-> to_dict(last.before[i])])

\* C26: delete(id) that returns true removes exactly one Student, the first
\* one in store order whose id equals id: the sequence is one shorter and all
\* other Students keep their values and their relative order.
C26_DeleteFirst ==
    ( /\ last.op = "delete"
      /\ last.ret = "True" )
    => LET hits == {k \in 1..Len(last.before) : last.before[k].id = last.args[1]}
       IN  /\ hits # {}
           /\ Len(students) = Len(last.before) - 1
           /\ \A k \in 1..Len(students) :
                 students[k] = last.before[IF k < SetMin(hits) THEN k ELSE k + 1]

\* two different Students had the id asked for; the second one is what the
\* store holds after the delete
C26_Witness ==
    /\ last.op = "delete"
    /\ last.ret = "True"
    /\ Len(last.before) = 2
    /\ last.before[1].id = last.before[2].id
    /\ last.before[1] # last.before[2]
    /\ students = <<last.before[2]>>

\* C27: sort never adds, removes or alters a Student: whatever the store, the
\* key and the direction, the sequence after sort is a permutation of the
\* sequence before it, every Student with its name, id and major unchanged.
C27_SortPermutes ==
    last.op = "sort" =>
        \E p \in [1..Len(students) -> 1..Len(last.before)] :
            /\ Len(students) = Len(last.before)
            /\ \A j, k \in 1..Len(students) : j # k => p[j] # p[k]
            /\ \A k \in 1..Len(students) : students[k] = last.before[p[k]]

\* a sort by id moved a Student in front of another one
C27_Witness ==
    /\ last.op = "sort"
    /\ last.args[1] = "id"
    /\ last.ret = "None"
    /\ Len(last.before) = 2
    /\ last.before[1] # last.before[2]
    /\ students = <<last.before[2], last.before[1]>>

\* C24: the uniqueness check and the insert of add are not atomic.  When every
\* call of add runs under one exclusive lock, no state in which two Students
\* have the same id is reachable through add; without the lock such a state is
\* reachable (C24_Witness).
C24_LockedAddUnique ==
    last.locking =>
        \A i, j \in 1..Len(students) :
            i # j => students[i].id # students[j].id

\* without a lock, two calls of add with the same id overlapped, both returned
\* True and the store holds two Students with that id
C24_Witness ==
    /\ ~last.locking
    /\ \A t \in Threads :
          /\ last.calls[t].pc = "idle"
          /\ last.calls[t].ret = "True"
          /\ last.calls[t].args[2] = last.calls[1].args[2]
    /\ Len(students) = 2
    /\ students[1].id = students[2].id
    /\ students[1].id = Strip(last.calls[1].args[2])

====
